---- MODULE Spec2Model ----
(***************************************************************************)
(* Pragya Company Law: the governance-grade hybrid retrieval pipeline.     *)
(*                                                                         *)
(* The model follows the two retrieval entry points the repository         *)
(* documents:                                                              *)
(*   - retrieval_service_faiss.query(): classifier, direct lookup, vector  *)
(*     search, generate_answer (QUERY_TO_ANSWER_FLOW.md,                   *)
(*     SECTION_QUERY_OPTIMIZATION.md);                                     *)
(*   - retrieval_service_v2.retrieve_with_governance(): vector search,     *)
(*     refusal policy, results or refusal (AGENTS.md, governance_db        *)
(*     README.md);                                                         *)
(* over the chunk store written by the ingestion pipeline.                 *)
(*                                                                         *)
(* Text is modelled at the level of whitespace-separated tokens: a query   *)
(* or a chunk text is a sequence of tokens, and the regular expressions    *)
(* and substring tests of the code are evaluated on that sequence.         *)
(***************************************************************************)
EXTENDS Naturals, Integers, Sequences, FiniteSets, TLC

VARIABLES
  chunks,        \* chunk store: chunk_id -> record, NoChunk when not created
  rel,           \* chunk_relationships: set of <<from, relationship, to>>
  faiss,         \* FAISS index: set of chunk_ids that have a vector
  entry,         \* "none" | "query" | "governance": the running entry point
  pc,            \* position of the running request
  query,         \* the raw query (sequence of tokens)
  intent,        \* result of the query analysis
  evidence,      \* authoritative evidence (sequence of chunk_ids)
  supplementary, \* supplementary vector-search chunks (sequence of chunk_ids)
  policy,        \* "none" | "proceed" | "refuse": refusal policy outcome
  policyInput,   \* evidence the refusal policy was evaluated on
  calls,         \* per-request call counters: embed, search, llm, policy
  embedOutcome,  \* "none" | "ok" | "fail": outcome of the query embedding call
  llmOutcome,    \* "none" | "ok" | "fail": outcome of the LLM generate call
  synthInput,    \* context chunks handed to generate_answer
  enforce,       \* enforce_refusal argument of retrieve_with_governance
  response,      \* the response returned to the caller
  formData,      \* IngestionForm: the fields of the admin's ingestion form
  errors,        \* IngestionForm: the fields validateForm found in error
  ingestionQueue,\* api/admin/ingest: the in-memory queue of ingestion jobs
  timers,        \* api/admin/ingest: job ids whose setTimeout has not fired
  httpResponse   \* api/admin/ingest: the response of the last request

\* the variables of the request being served
reqvars == <<entry, pc, query, intent, evidence, supplementary, policy,
             policyInput, calls, embedOutcome, llmOutcome, synthInput, enforce,
                 response>>

\* the variables of the admin's ingestion form and route
adminvars == <<formData, errors, ingestionQueue, timers, httpResponse>>

vars == <<chunks, rel, faiss, reqvars, adminvars>>

(***************************************************************************)
(* Bounds of the model.                                                    *)
(***************************************************************************)
MaxQueryLen == 4
MaxChildren == 1
MaxJobs == 1
TopK == 2

(***************************************************************************)
(* Tokens.  lower(), the \w+ prefix of a token and its leading digits are  *)
(* given for the tokens the model uses.                                    *)
(***************************************************************************)
Lower(tok) ==
  CASE tok = "What" -> "what"
    [] tok = "Section" -> "section"
    [] tok = "Memorandum" -> "memorandum"
    [] tok = "Explain" -> "explain"
    [] tok = "How" -> "how"
    [] OTHER -> tok

LowerSeq(s) == [i \in 1..Len(s) |-> Lower(s[i])]

\* the leading \w+ of a token ("" when the token starts with no word character)
WordPart(tok) ==
  CASE tok = "memorandum?" -> "memorandum"
    [] tok = "company?" -> "company"
    [] tok = "2(56)" -> "2"
    [] tok = "17?" -> "17"
    [] OTHER -> tok

\* the leading \d+ of a token ("" when the token starts with no digit)
Digits(tok) ==
  CASE tok = "17" -> "17"
    [] tok = "17?" -> "17"
    [] tok = "2" -> "2"
    [] tok = "2(56)" -> "2"
    [] tok = "1234" -> "1234"
    [] OTHER -> ""

\* str.zfill(3)
ZFill3(d) ==
  CASE d = "2" -> "002"
    [] d = "17" -> "017"
    [] OTHER -> d

Min(S) == CHOOSE x \in S : \A y \in S : x <= y

(***************************************************************************)
(* Query analysis (retrieval_service_faiss.query).                         *)
(***************************************************************************)
DefinitionKeywords ==
  <<"definition", "define", "meaning", "means", "what is", "what does">>

\* `keyword in query.lower()`: a substring test.  A one-word keyword occurs
\* inside a token, a two-word keyword across two neighbouring tokens.
TokenContains(tok, kw) ==
  \/ tok = kw
  \/ tok = "defined" /\ kw = "define"

KeywordIn(kw, lq) ==
  CASE kw = "what is" ->
         \E i \in 1..(Len(lq) - 1) : lq[i] = "what" /\ lq[i+1] = "is"
    [] kw = "what does" ->
         \E i \in 1..(Len(lq) - 1) : lq[i] = "what" /\ lq[i+1] = "does"
    [] OTHER -> \E i \in 1..Len(lq) : TokenContains(lq[i], kw)

is_definition_query(q) ==
  \E k \in 1..Len(DefinitionKeywords) :
     KeywordIn(DefinitionKeywords[k], LowerSeq(q))

\* the capture \w+(?:\s+\w+)* starting at token i: greedy, stops after the
\* first token that carries punctuation
RECURSIVE WordRun(_, _)
WordRun(lq, i) ==
  IF i > Len(lq) THEN << >>
  ELSE IF WordPart(lq[i]) = "" THEN << >>
  ELSE IF WordPart(lq[i]) # lq[i] THEN <<WordPart(lq[i])>>
  ELSE <<lq[i]>> \o WordRun(lq, i + 1)

term_patterns == <<"definition_of", "define", "what_is", "meaning_of">>

\* the term captured by pattern p when it matches at token i, << >> otherwise
MatchAt(p, lq, i) ==
  CASE p = "definition_of" ->
         IF i + 1 <= Len(lq) /\ lq[i] = "definition" /\ lq[i+1] = "of"
           THEN WordRun(lq, i + 2) ELSE << >>
    [] p = "define" ->
         IF lq[i] = "define" THEN WordRun(lq, i + 1) ELSE << >>
    [] p = "what_is" ->
         IF i + 1 <= Len(lq) /\ lq[i] = "what" /\ lq[i+1] = "is"
           THEN IF /\ i + 2 <= Len(lq)
                   /\ lq[i+2] \in {"a", "an"}
                   /\ WordRun(lq, i + 3) # << >>
                  THEN WordRun(lq, i + 3)
                  ELSE WordRun(lq, i + 2)
           ELSE << >>
    [] p = "meaning_of" ->
         IF i + 1 <= Len(lq) /\ lq[i] = "meaning" /\ lq[i+1] = "of"
           THEN WordRun(lq, i + 2) ELSE << >>

\* re.search: the leftmost match
SearchPattern(p, lq) ==
  LET hits == {i \in 1..Len(lq) : MatchAt(p, lq, i) # << >>}
  IN  IF hits = {} THEN << >> ELSE MatchAt(p, lq, Min(hits))

\* first pattern of the list that matches wins
ExtractTerm(q) ==
  LET lq == LowerSeq(q)
      ok == {k \in 1..Len(term_patterns) : SearchPattern(term_patterns[k], lq) # << >>}
  IN  IF ok = {} THEN << >> ELSE SearchPattern(term_patterns[Min(ok)], lq)

\* re.search(r'section\s+(\d+)', query.lower()): the digits, "" when no match
section_match(q) ==
  LET lq == LowerSeq(q)
      hits == {i \in 1..(Len(lq) - 1) : lq[i] = "section" /\ Digits(lq[i+1]) # ""}
  IN  IF hits = {} THEN "" ELSE Digits(lq[Min(hits) + 1])

\* `if is_definition_query and not section_match:` with a term extracted
DefinitionBranch(q) ==
  is_definition_query(q) /\ section_match(q) = "" /\ ExtractTerm(q) # << >>

\* the definition intent given only while the store holds a chunk of
\* Section 002: a classifier that looks at the chunk store
ClassifyByStore(q) ==
  IF DefinitionBranch(q) /\ \E c \in DOMAIN chunks :
                              chunks[c].role # "none" /\ chunks[c].section = "002"
    THEN [kind |-> "definition", param |-> ExtractTerm(q)]
  ELSE IF section_match(q) # ""
    THEN [kind |-> "section", param |-> <<ZFill3(section_match(q))>>]
  ELSE [kind |-> "general", param |-> q]

\* a keyword query whose term cannot be extracted sent to the general path
\* before the section test
ClassifyKeywordToGeneral(q) ==
  IF DefinitionBranch(q)
    THEN [kind |-> "definition", param |-> ExtractTerm(q)]
  ELSE IF is_definition_query(q) /\ ExtractTerm(q) = << >>
    THEN [kind |-> "general", param |-> q]
  ELSE IF section_match(q) # ""
    THEN [kind |-> "section", param |-> <<ZFill3(section_match(q))>>]
  ELSE [kind |-> "general", param |-> q]

Classify(q) ==
  IF DefinitionBranch(q)
    THEN [kind |-> "definition", param |-> ExtractTerm(q)]
  ELSE IF section_match(q) # ""
    THEN [kind |-> "section", param |-> <<ZFill3(section_match(q))>>]
  ELSE [kind |-> "general", param |-> q]

NoIntent == [kind |-> "none", param |-> << >>]

(***************************************************************************)
(* Chunk store (schema.sql) and governance rules.                          *)
(***************************************************************************)
NoChunk == [role |-> "none"]

\* DocumentType (types/admin.ts)
DocumentTypes ==
  {"act", "rule", "regulation", "order", "notification", "circular", "sop",
   "form", "guideline", "practice_note", "commentary", "textbook", "qa_book",
   "schedule", "register", "return", "qa", "other"}

\* retrieval priority by document type (governance_rules.py)
Priority(document_type) ==
  CASE document_type \in {"act", "rule"} -> 1
    [] document_type \in {"regulation", "notification", "order", "circular"} -> 2
    [] document_type \in {"sop", "form", "guideline"} -> 3
    [] OTHER -> 4

\* a policy row that lets every priority answer on its own
RefusalPolicyStandalone(priority) ==
  [can_answer_standalone     |-> TRUE,
   must_reference_parent_law |-> FALSE,
   refuse_if_parent_missing  |-> priority >= 2]

\* refusal policy row by priority
RefusalPolicy(priority) ==
  [can_answer_standalone     |-> priority = 1,
   must_reference_parent_law |-> priority >= 2,
   refuse_if_parent_missing  |-> priority >= 2]

\* documents the admin ingests: input_data of create_parent_chunk, the text
\* given to update_chunk_text and the parent law the document refers to
DocumentInputs ==
  <<[document_type |-> "act", section |-> "002",
     text |-> <<"Memorandum", "means", "charter">>, clarifies |-> 0],
    [document_type |-> "commentary", section |-> "017",
     text |-> <<"company", "formation">>, clarifies |-> 1]>>

DocIds == DOMAIN DocumentInputs

ParentId(p) == p * 10
ChildId(p, j) == p * 10 + j
ChunkIds == {ChildId(p, j) : p \in DocIds, j \in 0..MaxChildren}

Exists(c) == chunks[c] # NoChunk
ChildrenOf(id) == {c \in ChunkIds : Exists(c) /\ chunks[c].parent_chunk_id = id}

\* the text stored for a document: documents of at most MaxChildren chunks
DocText(p) ==
  LET text == DocumentInputs[p].text
  IN  IF Len(text) <= MaxChildren + 1 THEN text ELSE SubSeq(text, 1, MaxChildren + 1)

\* number of chunks the text is split into: chunks of two tokens, each
\* starting on the last token of the one before (the overlap)
ChildCount(text) == IF Len(text) <= 2 THEN 1 ELSE Len(text) - 1

\* text of child j: a window of the parent's text with one token of overlap
ChildText(text, j) ==
  IF j + 1 <= Len(text) THEN SubSeq(text, j, j + 1) ELSE SubSeq(text, j, Len(text))

IngestIdle == entry = "none"

\* ingestion_service.create_parent_chunk
CreateParentChunk(p) ==
  /\ IngestIdle
  /\ ~Exists(ParentId(p))
  /\ LET in == DocumentInputs[p]
         pr == Priority(in.document_type)
         pol == RefusalPolicy(pr)
     IN  chunks' = [chunks EXCEPT ![ParentId(p)] =
           [role |-> "parent", parent_chunk_id |-> 0,
            document_type |-> in.document_type, section |-> in.section,
            text |-> << >>, status |-> "DRAFT",
            priority |-> pr,
            can_answer_standalone |-> pol.can_answer_standalone,
            must_reference_parent_law |-> pol.must_reference_parent_law,
            refuse_if_parent_missing |-> pol.refuse_if_parent_missing,
            enabled |-> FALSE, embedded_at |-> FALSE]]
  /\ rel' = IF DocumentInputs[p].clarifies # 0 /\ Exists(ParentId(DocumentInputs[p].clarifies))
              THEN rel \cup {<<ParentId(p), "clarifies", ParentId(DocumentInputs[p].clarifies)>>}
              ELSE rel
  /\ UNCHANGED <<faiss, reqvars, adminvars>>

\* the texts a document is ingested with: its section text, or for a
\* document that comments on a law a text of one token (a heading, a note)
DocTexts(p) ==
  IF DocumentInputs[p].clarifies # 0 THEN {DocText(p), SubSeq(DocText(p), 1, 1)}
                                     ELSE {DocText(p)}

\* ingestion_service.update_chunk_text
UpdateChunkText(p) ==
  /\ IngestIdle
  /\ Exists(ParentId(p))
  /\ chunks[ParentId(p)].status = "DRAFT"
  /\ chunks[ParentId(p)].text = << >>
  /\ \E text \in DocTexts(p) :
       chunks' = [chunks EXCEPT ![ParentId(p)].text = text]
  /\ UNCHANGED <<rel, faiss, reqvars, adminvars>>

\* a split whose chunks keep the role of the chunk they are copied from
HierarchicalChunkKeepingRole(p) ==
  /\ IngestIdle
  /\ Exists(ParentId(p))
  /\ chunks[ParentId(p)].text # << >>
  /\ ChildrenOf(ParentId(p)) = {}
  /\ LET n == ChildCount(chunks[ParentId(p)].text)
     IN  /\ chunks' = [c \in ChunkIds |->
               IF \E j \in 1..n : c = ChildId(p, j)
                 THEN LET j == c - ParentId(p)
                      IN [chunks[ParentId(p)] EXCEPT
                            !.parent_chunk_id = ParentId(p),
                            !.text = ChildText(chunks[ParentId(p)].text, j),
                            !.status = "DRAFT",
                            !.enabled = FALSE, !.embedded_at = FALSE]
                 ELSE chunks[c]]
         /\ rel' = rel \cup {<<ChildId(p, j), "part_of", ParentId(p)>> : j \in 1..n}
                       \cup {<<ChildId(p, j), "precedes", ChildId(p, j + 1)>> :
                               j \in 1..(n - 1)}
  /\ UNCHANGED <<faiss, reqvars, adminvars>>

\* a split that also runs for a document whose parent chunk was never created
HierarchicalChunkWithoutParent(p) ==
  /\ IngestIdle
  /\ ChildrenOf(ParentId(p)) = {}
  /\ LET in == DocumentInputs[p]
         pol == RefusalPolicy(Priority(in.document_type))
         base == IF Exists(ParentId(p)) THEN chunks[ParentId(p)]
                 ELSE [role |-> "parent", parent_chunk_id |-> 0,
                       document_type |-> in.document_type, section |-> in.section,
                       text |-> DocText(p), status |-> "DRAFT",
                       priority |-> Priority(in.document_type),
                       can_answer_standalone |-> pol.can_answer_standalone,
                       must_reference_parent_law |-> pol.must_reference_parent_law,
                       refuse_if_parent_missing |-> pol.refuse_if_parent_missing,
                       enabled |-> FALSE, embedded_at |-> FALSE]
         n == ChildCount(base.text)
     IN  /\ base.text # << >>
         /\ chunks' = [c \in ChunkIds |->
               IF \E j \in 1..n : c = ChildId(p, j)
                 THEN LET j == c - ParentId(p)
                      IN [base EXCEPT
                            !.role = "child", !.parent_chunk_id = ParentId(p),
                            !.text = ChildText(base.text, j),
                            !.status = "DRAFT",
                            !.enabled = FALSE, !.embedded_at = FALSE]
                 ELSE chunks[c]]
         /\ rel' = rel \cup {<<ChildId(p, j), "part_of", ParentId(p)>> : j \in 1..n}
                       \cup {<<ChildId(p, j), "precedes", ChildId(p, j + 1)>> :
                               j \in 1..(n - 1)}
  /\ UNCHANGED <<faiss, reqvars, adminvars>>

\* chunking_engine_v2.hierarchical_chunk: the child chunks of the parent's text
HierarchicalChunk(p) ==
  /\ IngestIdle
  /\ Exists(ParentId(p))
  /\ chunks[ParentId(p)].text # << >>
  /\ ChildrenOf(ParentId(p)) = {}
  /\ LET n == ChildCount(chunks[ParentId(p)].text)
     IN  /\ chunks' = [c \in ChunkIds |->
               IF \E j \in 1..n : c = ChildId(p, j)
                 THEN LET j == c - ParentId(p)
                      IN [chunks[ParentId(p)] EXCEPT
                            !.role = "child", !.parent_chunk_id = ParentId(p),
                            !.text = ChildText(chunks[ParentId(p)].text, j),
                            !.status = "DRAFT",
                            !.enabled = FALSE, !.embedded_at = FALSE]
                 ELSE chunks[c]]
         /\ rel' = rel \cup {<<ChildId(p, j), "part_of", ParentId(p)>> : j \in 1..n}
                       \cup {<<ChildId(p, j), "precedes", ChildId(p, j + 1)>> :
                               j \in 1..(n - 1)}
  /\ UNCHANGED <<faiss, reqvars, adminvars>>

\* an embedding run that picks up the parent chunk with its children
UnembeddedWithParent(p) ==
  {c \in ChildrenOf(ParentId(p)) \cup {ParentId(p)} :
     Exists(c) /\ (~chunks[c].embedded_at \/ ~chunks[c].enabled)}

\* LENGTH(cc.text) > 50, in the units of the model: a text of one token
\* is too short to be embedded
MinTextLength == 1

\* the query before the change: every child chunk of the parent, embedded or not
AllChildChunks(p) ==
  {c \in ChildrenOf(ParentId(p)) :
     chunks[c].role = "child" /\ Len(chunks[c].text) > MinTextLength}

\* chunks the embedding run picks up: child chunks with text long enough
\* that are not embedded yet
Unembedded(p) ==
  {c \in ChildrenOf(ParentId(p)) :
     /\ chunks[c].role = "child"
     /\ Len(chunks[c].text) > MinTextLength
     /\ (~chunks[c].embedded_at \/ ~chunks[c].enabled)}

\* embedding_worker.embed_child_chunks
EmbedChildChunks(p) ==
  /\ IngestIdle
  /\ Unembedded(p) # {}
  /\ chunks' = [c \in ChunkIds |->
        IF c \in Unembedded(p)
          THEN [chunks[c] EXCEPT !.enabled = TRUE, !.embedded_at = TRUE]
          ELSE chunks[c]]
  /\ faiss' = faiss \cup Unembedded(p)
  /\ UNCHANGED <<rel, reqvars, adminvars>>

\* build_vector_database: the rows of the incremental query, over all documents
NewChunks == UNION {Unembedded(p) : p \in DocIds}

\* build_vector_database: the chunks a run embeds, the embedding records it
\* writes and the index it saves
BuildResult ==
  [embedded |-> NewChunks,
   chunks   |-> [c \in ChunkIds |->
                   IF c \in NewChunks
                     THEN [chunks[c] EXCEPT !.enabled = TRUE, !.embedded_at = TRUE]
                     ELSE chunks[c]],
   faiss    |-> faiss \cup NewChunks]

\* build_vector_database(): one run of the embedding phase
BuildVectorDatabase ==
  /\ IngestIdle
  /\ chunks' = BuildResult.chunks
  /\ faiss' = BuildResult.faiss
  /\ UNCHANGED <<rel, reqvars, adminvars>>

\* api_governance.approve_chunk_endpoint
ApproveChunk(c) ==
  /\ IngestIdle
  /\ Exists(c)
  /\ chunks[c].status = "DRAFT"
  /\ chunks' = [chunks EXCEPT ![c].status = "ACTIVE"]
  /\ UNCHANGED <<rel, faiss, reqvars, adminvars>>

\* retirement of a chunk (manual action)
RetireChunk(c) ==
  /\ IngestIdle
  /\ Exists(c)
  /\ chunks[c].status = "ACTIVE"
  /\ chunks' = [chunks EXCEPT ![c].status = "RETIRED"]
  /\ UNCHANGED <<rel, faiss, reqvars, adminvars>>

(***************************************************************************)
(* Retrieval helpers.                                                      *)
(***************************************************************************)
\* injective sequences of length n over S
Arrangements(S, n) ==
  {s \in [1..n -> S] : \A i, j \in 1..n : i # j => s[i] # s[j]}

Range(s) == {s[i] : i \in 1..Len(s)}

Take(s, k) == IF Len(s) <= k THEN s ELSE SubSeq(s, 1, k)

RoleRank(c) == IF chunks[c].role = "parent" THEN 0 ELSE 1

\* ORDER BY CASE WHEN chunk_role = 'parent' THEN 0 ELSE 1 END, chunk_id
ParentFirst(S) ==
  CHOOSE s \in Arrangements(S, Cardinality(S)) :
    \A i, j \in 1..Cardinality(S) :
      i < j => \/ RoleRank(s[i]) < RoleRank(s[j])
               \/ RoleRank(s[i]) = RoleRank(s[j]) /\ s[i] < s[j]

\* LOWER(cc.text) LIKE '%term%'
TextContains(text, term) ==
  /\ term # << >>
  /\ \E i \in 1..Len(text) :
        /\ i + Len(term) - 1 <= Len(text)
        /\ SubSeq(LowerSeq(text), i, i + Len(term) - 1) = LowerSeq(term)

\* LIMIT of the definition lookup
DefinitionLimit == 5

\* direct lookup of a section: WHERE ci.section = %s ORDER BY ... LIMIT top_k
DirectLookupSection(key, k) ==
  Take(ParentFirst({c \in ChunkIds : Exists(c) /\ chunks[c].section = key}), k)

\* direct lookup of a definition: Section 002 of the act whose text has the term
DirectLookupDefinition(term) ==
  Take(ParentFirst({c \in ChunkIds :
          /\ Exists(c)
          /\ chunks[c].section = "002"
          /\ chunks[c].document_type = "act"
          /\ TextContains(chunks[c].text, term)}), DefinitionLimit)

\* section keys compare as strings; the model's keys in their order
SectionLeq(a, b) == a = b \/ (a = "002" /\ b = "017")

\* get_chunk_details: WHERE ci.chunk_id = ANY(ids) ORDER BY crr.priority,
\* ci.section; rows with the same priority and section come in any order
GetChunkDetails(ids) ==
  LET S == {c \in ids : Exists(c)}
  IN  {s \in Arrangements(S, Cardinality(S)) :
         \A i, j \in 1..Cardinality(S) :
           i < j => \/ chunks[s[i]].priority < chunks[s[j]].priority
                    \/ /\ chunks[s[i]].priority = chunks[s[j]].priority
                       /\ SectionLeq(chunks[s[i]].section, chunks[s[j]].section)}

\* FAISS search: the k nearest vectors of the index, nearest first
\* (which vectors are nearest depends on the embedding)
VectorHits(indexed, k) ==
  Arrangements(indexed, IF Cardinality(indexed) <= k THEN Cardinality(indexed) ELSE k)

(***************************************************************************)
(* Refusal policy engine (retrieval_service_v2._check_refusal_policies).   *)
(***************************************************************************)
\* the document unit a chunk belongs to: the parent of a child, else itself
Root(c) == IF chunks[c].parent_chunk_id # 0 THEN chunks[c].parent_chunk_id ELSE c

\* d is the parent law of c: an implements/clarifies edge leads from c to d
ParentLawOf(c, d) ==
  \E l \in {"implements", "clarifies"} :
     \/ <<c, l, d>> \in rel
     \/ <<Root(c), l, Root(d)>> \in rel

\* a higher-authority chunk related to c is present in the evidence set
HasParentLaw(c, ev) ==
  \E d \in Range(ev) : chunks[d].priority < chunks[c].priority /\ ParentLawOf(c, d)

\* the least authoritative chunks of the evidence set
LowestPriority(ev) ==
  {c \in Range(ev) : \A d \in Range(ev) : chunks[d].priority <= chunks[c].priority}

\* a looser engine: any higher-authority chunk counts, related or not
CheckRefusalPoliciesUnrelated(ev) ==
  IF \E c \in LowestPriority(ev) :
        /\ chunks[c].priority >= 2
        /\ ~(\E d \in Range(ev) : chunks[d].priority < chunks[c].priority)
        /\ (chunks[c].priority = 4 \/ chunks[c].refuse_if_parent_missing)
    THEN "refuse" ELSE "proceed"

CheckRefusalPolicies(ev) ==
  IF \E c \in LowestPriority(ev) :
        /\ chunks[c].priority >= 2
        /\ ~HasParentLaw(c, ev)
        /\ (chunks[c].priority = 4 \/ chunks[c].refuse_if_parent_missing)
    THEN "refuse" ELSE "proceed"

RefusalReason == "insufficient_authoritative_source"

(***************************************************************************)
(* Requests.                                                               *)
(***************************************************************************)
NoResponse ==
  [kind |-> "none", answer_from |-> << >>, retrieved_chunks |-> << >>,
   refused |-> FALSE, reason |-> "", direct_lookup_count |-> 0,
   supplementary_count |-> 0]

NoCalls == [embed |-> 0, search |-> 0, llm |-> 0, policy |-> 0]

Tag(ids, source_type) ==
  [i \in 1..Len(ids) |-> [chunk_id |-> ids[i], source_type |-> source_type]]

\* questions users ask
Queries ==
  {<<"What", "is", "the", "definition", "of", "memorandum?">>,
   <<"Explain", "section", "17">>,
   <<"How", "to", "register", "a", "company?">>}

\* a plan that runs the vector search before the direct lookup of a section
RetrievalPlanVectorFirst(kind) ==
  CASE kind = "definition" -> [direct |-> TRUE, vector |-> FALSE, supplementary |-> FALSE]
    [] kind = "section" -> [direct |-> TRUE, vector |-> TRUE, supplementary |-> FALSE]
    [] OTHER -> [direct |-> FALSE, vector |-> TRUE, supplementary |-> FALSE]

\* the direct lookup run for every intent, the general one included
RetrievalPlanDirectAlways(kind) ==
  CASE kind = "definition" -> [direct |-> TRUE, vector |-> FALSE, supplementary |-> FALSE]
    [] kind = "section" -> [direct |-> TRUE, vector |-> FALSE, supplementary |-> TRUE]
    [] OTHER -> [direct |-> TRUE, vector |-> TRUE, supplementary |-> FALSE]

\* what query() runs per intent: definition -> Section 002 only, vector search
\* skipped; section -> direct lookup, vector search for supplementary chunks;
\* general -> vector search only
RetrievalPlan(kind) ==
  CASE kind = "definition" -> [direct |-> TRUE, vector |-> FALSE, supplementary |-> FALSE]
    [] kind = "section" -> [direct |-> TRUE, vector |-> FALSE, supplementary |-> TRUE]
    [] OTHER -> [direct |-> FALSE, vector |-> TRUE, supplementary |-> FALSE]

\* source_type of the chunks the answer is generated from
EvidenceTag(kind) ==
  IF RetrievalPlan(kind).direct THEN "direct_lookup" ELSE "vector"

\* the direct lookup of an intent
DirectLookup(in) ==
  IF in.kind = "definition" THEN DirectLookupDefinition(in.param)
  ELSE DirectLookupSection(in.param[1], TopK)

\* POST /query: retrieval_service.query(user_query)
Query(q) ==
  /\ entry = "none"
  /\ entry' = "query"
  /\ pc' = "received"
  /\ query' = q
  /\ UNCHANGED <<adminvars, chunks, rel, faiss, intent, evidence, supplementary, policy,
                 policyInput, calls, embedOutcome, llmOutcome, synthInput, enforce,
                 response>>

\* the query types of the queries the service receives, as Classify gives them
QueryTypes == [q \in Queries |-> Classify(q)]

\* query(): detect the query type
AnalyzeQuery ==
  /\ entry = "query" /\ pc = "received"
  /\ intent' = IF query \in DOMAIN QueryTypes THEN QueryTypes[query]
                                              ELSE Classify(query)
  /\ pc' = "classified"
  /\ UNCHANGED <<adminvars, chunks, rel, faiss, entry, query, evidence, supplementary,
                 policy, policyInput, calls, embedOutcome, llmOutcome, synthInput, enforce,
                 response>>

\* what a search can return: up to TopK distinct vectors of the index
HitSeqs == UNION {Arrangements(faiss, n) : n \in 0..TopK}

\* a search that still gives chunks of the index when the embedding call failed
SearchVectorsDespiteFailure(ok, hits) ==
  /\ embedOutcome' = IF ok THEN "ok" ELSE "fail"
  /\ calls' = [calls EXCEPT !.embed = @ + 1,
                            !.search = IF ok THEN @ + 1 ELSE @]
  /\ hits \in VectorHits(faiss, TopK)

\* search_vectors(user_query, top_k): embed the query, search the index.
\* Gives the outcome of the embedding call and the chunk ids found.
SearchVectors(ok, hits) ==
  /\ embedOutcome' = IF ok THEN "ok" ELSE "fail"
  /\ calls' = [calls EXCEPT !.embed = @ + 1,
                            !.search = IF ok THEN @ + 1 ELSE @]
  /\ IF ok THEN hits \in VectorHits(faiss, TopK) ELSE hits = << >>

\* query(): gather the evidence the answer is generated from
GatherEvidence(ok) ==
  /\ entry = "query" /\ pc = "classified"
  /\ \E hits \in HitSeqs :
       LET plan == RetrievalPlan(intent.kind)
       IN  /\ IF plan.vector
                THEN SearchVectors(ok, hits)
                ELSE ok /\ hits = << >> /\ UNCHANGED <<calls, embedOutcome>>
           /\ \E ids \in {IF plan.direct THEN Range(DirectLookup(intent))
                                         ELSE Range(hits)} :
                evidence' \in GetChunkDetails(ids)
  /\ pc' = "evidence_gathered"
  /\ UNCHANGED <<adminvars, chunks, rel, faiss, entry, query, intent, supplementary,
                 policy, policyInput, llmOutcome, synthInput, enforce, response>>

\* generate_answer: the size the context is cut to ([:6000]), in the units
\* of the model: one per token of text, header line or separator
ContextLimit == 2

\* f"[{doc_type}] {citation}: {title}\n{text}"
ContextPart(c) ==
  <<<<chunks[c].document_type, chunks[c].section>>>> \o chunks[c].text

\* "\n\n---\n\n".join(context_parts)
RECURSIVE JoinParts(_)
JoinParts(ids) ==
  IF ids = << >> THEN << >>
  ELSE IF Len(ids) = 1 THEN ContextPart(ids[1])
  ELSE ContextPart(ids[1]) \o <<"---">> \o JoinParts(Tail(ids))

\* the context of the prompt: the joined parts cut to the size limit
BuildContext(context_chunks) == Take(JoinParts(context_chunks), ContextLimit)

\* generate_answer(user_query, chunk_details): the call to the LLM starts
GenerateAnswer ==
  /\ entry = "query" /\ pc = "evidence_gathered"
  /\ synthInput' = evidence
  /\ calls' = [calls EXCEPT !.llm = @ + 1]
  /\ pc' = "synthesizing"
  /\ UNCHANGED <<adminvars, chunks, rel, faiss, entry, query, intent, evidence,
                 supplementary, policy, policyInput, embedOutcome, llmOutcome, enforce,
                 response>>

\* a failed LLM call issued again for the same query
LLMReturnsRetrying(ok) ==
  /\ entry = "query" /\ pc = "synthesizing"
  /\ llmOutcome' = IF ok THEN "ok" ELSE "fail"
  /\ pc' = IF ok THEN "answered" ELSE "evidence_gathered"
  /\ UNCHANGED <<adminvars, chunks, rel, faiss, entry, query, intent, evidence,
                 supplementary, policy, policyInput, calls, embedOutcome,
                 synthInput, enforce, response>>

\* a failed LLM call answered with an empty answer, as if it had succeeded
LLMReturnsEmptyAnswer(ok) ==
  /\ entry = "query" /\ pc = "synthesizing"
  /\ llmOutcome' = IF ok THEN "ok" ELSE "fail"
  /\ pc' = "answered"
  /\ UNCHANGED <<adminvars, chunks, rel, faiss, entry, query, intent, evidence,
                 supplementary, policy, policyInput, calls, embedOutcome,
                 synthInput, enforce, response>>

\* the LLM call returns: status 200, or a timeout / another status
LLMReturns(ok) ==
  /\ entry = "query" /\ pc = "synthesizing"
  /\ llmOutcome' = IF ok THEN "ok" ELSE "fail"
  /\ IF ok
       THEN /\ pc' = "answered"
            /\ UNCHANGED response
       ELSE /\ pc' = "done"
            /\ response' = [NoResponse EXCEPT
                 !.kind = "answer_generation_failed",
                 !.retrieved_chunks = Tag(evidence, EvidenceTag(intent.kind)),
                 !.direct_lookup_count =
                    IF RetrievalPlan(intent.kind).direct THEN Len(evidence) ELSE 0]
  /\ UNCHANGED <<adminvars, chunks, rel, faiss, entry, query, intent, evidence,
                 supplementary, policy, policyInput, calls, embedOutcome,
                 synthInput, enforce>>

\* section query: "Also performing vector search for supplementary documents"
SupplementarySearch(ok) ==
  /\ entry = "query" /\ pc = "answered"
  /\ RetrievalPlan(intent.kind).supplementary
  /\ \E hits \in HitSeqs :
       /\ SearchVectors(ok, hits)
       /\ supplementary' \in GetChunkDetails(Range(hits))
  /\ pc' = "merged"
  /\ UNCHANGED <<adminvars, chunks, rel, faiss, entry, query, intent, evidence, policy,
                 policyInput, llmOutcome, synthInput, enforce, response>>

\* the answer regenerated from the merged chunks (the flow before the change)
AnswerSourceMerged(generated, direct, supp) == direct \o supp

\* 'answer': answer_result['answer']: the answer generated from the direct
\* lookup is returned as it is
AnswerSource(generated, direct, supp) == generated

\* a response that counts every returned chunk as a direct lookup chunk
RespondCountingAll ==
  /\ entry = "query"
  /\ \/ pc = "merged"
     \/ pc = "answered" /\ ~RetrievalPlan(intent.kind).supplementary
  /\ response' =
       [NoResponse EXCEPT
          !.kind = "answer",
          !.answer_from = AnswerSource(synthInput, evidence, supplementary),
          !.retrieved_chunks =
             Tag(evidence, EvidenceTag(intent.kind))
             \o Tag(supplementary, "supplementary"),
          !.direct_lookup_count = Len(evidence) + Len(supplementary),
          !.supplementary_count = Len(supplementary)]
  /\ pc' = "done"
  /\ UNCHANGED <<adminvars, chunks, rel, faiss, entry, query, intent, evidence,
                 supplementary, policy, policyInput, calls, embedOutcome, llmOutcome,
                 synthInput, enforce>>

\* query(): format the final response
Respond ==
  /\ entry = "query"
  /\ \/ pc = "merged"
     \/ pc = "answered" /\ ~RetrievalPlan(intent.kind).supplementary
  /\ response' =
       [NoResponse EXCEPT
          !.kind = "answer",
          !.answer_from = AnswerSource(synthInput, evidence, supplementary),
          !.retrieved_chunks =
             Tag(evidence, EvidenceTag(intent.kind))
             \o Tag(supplementary, "supplementary"),
          !.direct_lookup_count =
             IF RetrievalPlan(intent.kind).direct THEN Len(evidence) ELSE 0,
          !.supplementary_count = Len(supplementary)]
  /\ pc' = "done"
  /\ UNCHANGED <<adminvars, chunks, rel, faiss, entry, query, intent, evidence,
                 supplementary, policy, policyInput, calls, embedOutcome, llmOutcome,
                 synthInput, enforce>>

\* retrieve_with_governance(query, top_k, enforce_refusal)
RetrieveWithGovernance(q, enf) ==
  /\ entry = "none"
  /\ entry' = "governance"
  /\ pc' = "received"
  /\ query' = q
  /\ enforce' = enf
  /\ UNCHANGED <<adminvars, chunks, rel, faiss, intent, evidence, supplementary, policy,
                 policyInput, calls, embedOutcome, llmOutcome, synthInput, response>>

\* child chunks with enabled = TRUE whose lifecycle status is ACTIVE
GovernanceEligible ==
  {c \in faiss : /\ Exists(c)
                 /\ chunks[c].role = "child"
                 /\ chunks[c].enabled
                 /\ chunks[c].status = "ACTIVE"}

\* STEP 1-3: query embedding, vector search over the child chunks
SearchChunks(ok) ==
  /\ entry = "governance" /\ pc = "received"
  /\ embedOutcome' = IF ok THEN "ok" ELSE "fail"
  /\ calls' = [calls EXCEPT !.embed = @ + 1,
                            !.search = IF ok THEN @ + 1 ELSE @]
  /\ \E hits \in HitSeqs :
       /\ IF ok THEN hits \in VectorHits(GovernanceEligible, TopK) ELSE hits = << >>
       /\ evidence' = hits
  /\ pc' = "evidence_gathered"
  /\ UNCHANGED <<adminvars, chunks, rel, faiss, entry, query, intent, supplementary,
                 policy, policyInput, llmOutcome, synthInput, enforce, response>>

\* STEP 4: apply the refusal policy
ApplyRefusalPolicy ==
  /\ entry = "governance" /\ pc = "evidence_gathered"
  /\ policy' = CheckRefusalPolicies(evidence)
  /\ policyInput' = evidence
  /\ calls' = [calls EXCEPT !.policy = @ + 1]
  /\ pc' = "policy_checked"
  /\ UNCHANGED <<adminvars, chunks, rel, faiss, entry, query, intent, evidence,
                 supplementary, embedOutcome, llmOutcome, synthInput, enforce, response>>

\* a refusal that keeps the reason and drops the chunks
RefusalResponseBare(ev, reason) ==
  [NoResponse EXCEPT !.kind = "refusal", !.refused = TRUE, !.reason = reason]

\* the refusal returned to the caller
RefusalResponse(ev, reason) ==
  [NoResponse EXCEPT !.kind = "refusal", !.refused = TRUE, !.reason = reason,
                     !.retrieved_chunks = Tag(ev, "vector")]

\* STEP 5: return results or refusal
ReturnResultsOrRefusal ==
  /\ entry = "governance" /\ pc = "policy_checked"
  /\ IF enforce /\ policy = "refuse"
       THEN /\ response' = RefusalResponse(evidence, RefusalReason)
            /\ pc' = "refused"
       ELSE /\ response' = [NoResponse EXCEPT
                              !.kind = "results",
                              !.retrieved_chunks = Tag(evidence, "vector")]
            /\ pc' = "done"
  /\ UNCHANGED <<adminvars, chunks, rel, faiss, entry, query, intent, evidence,
                 supplementary, policy, policyInput, calls, embedOutcome, llmOutcome,
                 synthInput, enforce>>

\* a delivery that drops the chunks it served from the embedding index
DeliverEvictingEvidence ==
  /\ entry # "none"
  /\ pc \in {"done", "refused"}
  /\ entry' = "none"
  /\ pc' = "idle"
  /\ query' = << >>
  /\ intent' = NoIntent
  /\ evidence' = << >>
  /\ supplementary' = << >>
  /\ policy' = "none"
  /\ policyInput' = << >>
  /\ calls' = NoCalls
  /\ embedOutcome' = "none"
  /\ llmOutcome' = "none"
  /\ synthInput' = << >>
  /\ enforce' = TRUE
  /\ response' = NoResponse
  /\ faiss' = faiss \ Range(evidence)
  /\ UNCHANGED <<chunks, rel, adminvars>>

\* the response is delivered; the service holds no state of the request
Deliver ==
  /\ entry # "none"
  /\ pc \in {"done", "refused"}
  /\ entry' = "none"
  /\ pc' = "idle"
  /\ query' = << >>
  /\ intent' = NoIntent
  /\ evidence' = << >>
  /\ supplementary' = << >>
  /\ policy' = "none"
  /\ policyInput' = << >>
  /\ calls' = NoCalls
  /\ embedOutcome' = "none"
  /\ llmOutcome' = "none"
  /\ synthInput' = << >>
  /\ enforce' = TRUE
  /\ response' = NoResponse
  /\ UNCHANGED <<adminvars, chunks, rel, faiss>>

(***************************************************************************)
(* Admin: the ingestion form (components/admin/IngestionForm.tsx) and the  *)
(* ingest route (app/api/admin/ingest/route.ts).                           *)
(***************************************************************************)
\* types/admin.ts
BINDING_DOCUMENT_TYPES ==
  {"act", "rule", "notification", "form", "schedule", "return", "circular",
   "order", "regulation", "register"}

NON_BINDING_DOCUMENT_TYPES ==
  {"sop", "guideline", "practice_note", "commentary", "textbook", "qa_book",
   "qa", "other"}

\* IngestionForm.tsx: the binding flag of each entry of ALL_DOCUMENT_TYPES
ALL_DOCUMENT_TYPES ==
  [dt \in DocumentTypes |->
     CASE dt = "act" -> TRUE
       [] dt = "rule" -> TRUE
       [] dt = "regulation" -> TRUE
       [] dt = "order" -> TRUE
       [] dt = "notification" -> TRUE
       [] dt = "circular" -> TRUE
       [] dt = "sop" -> FALSE
       [] dt = "form" -> TRUE
       [] dt = "guideline" -> FALSE
       [] dt = "practice_note" -> FALSE
       [] dt = "commentary" -> FALSE
       [] dt = "textbook" -> FALSE
       [] dt = "qa_book" -> FALSE
       [] dt = "schedule" -> TRUE
       [] dt = "register" -> TRUE
       [] dt = "return" -> TRUE
       [] dt = "qa" -> FALSE
       [] dt = "other" -> FALSE]

\* useState of the form: "" stands for undefined
InitialFormData ==
  [documentType |-> "", isBinding |-> TRUE, section |-> "",
   inputType |-> "pdf", pdfFile |-> FALSE, textContent |-> "",
   dateIssued |-> "2026-01-01", complianceArea |-> "",
   documentLanguage |-> "English"]

\* the values the controls of the form can give to a field
FieldValues(field) ==
  CASE field = "documentType" -> DocumentTypes
    [] field = "isBinding" -> BOOLEAN
    [] field = "section" -> {"", "17"}
    [] field = "inputType" -> {"pdf", "text"}
    [] field = "pdfFile" -> BOOLEAN
    [] field = "textContent" -> {"", "text"}
    [] field = "dateIssued" -> {"", "2026-01-01"}
    [] field = "complianceArea" -> {"", "Company Formation"}
    [] field = "documentLanguage" -> {"", "English"}

FormFields == DOMAIN InitialFormData

\* handleChange(field, value): the binding status follows the document type
handleChange(field, value) ==
  /\ formData' =
       LET updated == [formData EXCEPT ![field] = value]
       IN  IF field = "documentType" /\ value \in DOMAIN ALL_DOCUMENT_TYPES
             THEN IF ALL_DOCUMENT_TYPES[value]
                    THEN [updated EXCEPT !.isBinding = TRUE]
                    ELSE [updated EXCEPT !.isBinding = FALSE, !.section = ""]
             ELSE updated
  /\ errors' = errors \ {field}
  /\ UNCHANGED <<chunks, rel, faiss, reqvars, ingestionQueue, timers,
                 httpResponse>>

requiresSection(fd) ==
  fd.isBinding /\ fd.documentType \in BINDING_DOCUMENT_TYPES

\* validateForm(): the fields in error
validateForm(fd) ==
  {f \in FormFields :
     \/ f = "documentType" /\ fd.documentType = ""
     \/ f = "section" /\ requiresSection(fd) /\ fd.section = ""
     \/ f = "dateIssued" /\ fd.dateIssued = ""
     \/ f = "complianceArea" /\ fd.complianceArea = ""
     \/ f = "documentLanguage" /\ fd.documentLanguage = ""
     \/ f = "pdfFile" /\ fd.inputType = "pdf" /\ ~fd.pdfFile
     \/ f = "textContent" /\ fd.inputType = "text" /\ fd.textContent = ""}

\* handleSubmit: validate; the valid form is handed to onSubmit
handleSubmit ==
  /\ errors' = validateForm(formData)
  /\ UNCHANGED <<chunks, rel, faiss, reqvars, formData, ingestionQueue,
                 timers, httpResponse>>

\* the body of a request to the route: "" stands for a missing field,
\* metadata = FALSE for a multipart request without its metadata part
ReferenceRequest ==
  [metadata |-> TRUE, documentType |-> "act", isBinding |-> TRUE,
   section |-> "17", dateIssued |-> "2026-01-01",
   complianceArea |-> "Company Formation", documentLanguage |-> "English"]

requiredFields ==
  <<"documentType", "dateIssued", "complianceArea", "documentLanguage">>

\* the requests sent to the route: the reference request, every document
\* type marked binding without a section, documents of each storage folder
\* marked non-binding, and requests that lack a required field or the metadata
RequestSpace ==
  {ReferenceRequest}
  \cup {[ReferenceRequest EXCEPT !.documentType = dt, !.section = ""] :
           dt \in DocumentTypes}
  \cup {[ReferenceRequest EXCEPT !.documentType = dt, !.isBinding = FALSE,
                                 !.section = ""] :
           dt \in {"act", "qa", "textbook", "sop"}}
  \cup {[ReferenceRequest EXCEPT ![requiredFields[k]] = ""] :
           k \in 1..Len(requiredFields)}
  \cup {[ReferenceRequest EXCEPT !.metadata = FALSE]}

NoHttpResponse == [status |-> 0, success |-> FALSE, error |-> "", data |-> << >>]

BadRequest(error) ==
  [status |-> 400, success |-> FALSE, error |-> error, data |-> << >>]

\* route.ts POST: the types for which a section is required
bindingTypes ==
  {"act", "rule", "notification", "circular", "order", "form", "schedule",
   "register", "return"}

\* route.ts POST: the storage path of the document
StoragePath(req) ==
  IF req.isBinding /\ req.section # ""
    THEN <<"raw", "companies_act", ZFill3(req.section), req.documentType>>
    ELSE <<"raw", "non-binding",
           IF req.documentType \in {"qa", "qa_book"} THEN "qa"
           ELSE IF req.documentType \in {"textbook", "commentary"} THEN "textbooks"
           ELSE "other">>

MissingFields(req) ==
  {k \in 1..Len(requiredFields) : req[requiredFields[k]] = ""}

\* the validation of POST: the error of the request, "" when it is accepted
RequestError(req) ==
  IF ~req.metadata THEN "Metadata is required"
  ELSE IF MissingFields(req) # {}
    THEN requiredFields[Min(MissingFields(req))] \o " is required"
  ELSE IF /\ req.isBinding /\ req.section = ""
          /\ req.documentType \in bindingTypes
    THEN "Section is required for binding documents"
  ELSE ""

JobIds == 1..MaxJobs

\* route.ts POST
POST(req) ==
  /\ RequestError(req) = "" => Len(ingestionQueue) < MaxJobs
  /\ IF RequestError(req) # ""
       THEN /\ httpResponse' = BadRequest(RequestError(req))
            /\ UNCHANGED <<ingestionQueue, timers>>
       ELSE LET jobId == Len(ingestionQueue) + 1
                job == [id |-> jobId, status |-> "pending", data |-> req,
                        completedAt |-> FALSE, storagePath |-> StoragePath(req)]
            IN  /\ ingestionQueue' = Append(ingestionQueue, job)
                /\ timers' = timers \cup {jobId}
                /\ httpResponse' =
                     [status |-> 200, success |-> TRUE, error |-> "",
                      data |-> <<[jobId |-> jobId, status |-> "pending",
                                  storagePath |-> StoragePath(req)]>>]
  /\ UNCHANGED <<chunks, rel, faiss, reqvars, formData, errors>>

\* ingestionQueue.findIndex(j => j.id === jobId), 0 for -1
FindIndex(jobId) ==
  LET found == {i \in 1..Len(ingestionQueue) : ingestionQueue[i].id = jobId}
  IN  IF found = {} THEN 0 ELSE Min(found)

\* a timer that takes the job it completes out of the queue
TimerFiresRemovingJob(jobId) ==
  /\ jobId \in timers
  /\ timers' = timers \ {jobId}
  /\ ingestionQueue' =
       SelectSeq(ingestionQueue, LAMBDA j : j.id # jobId)
  /\ UNCHANGED <<chunks, rel, faiss, reqvars, formData, errors, httpResponse>>

\* the setTimeout callback of a job
TimerFires(jobId) ==
  /\ jobId \in timers
  /\ timers' = timers \ {jobId}
  /\ ingestionQueue' =
       IF FindIndex(jobId) # 0
         THEN [ingestionQueue EXCEPT ![FindIndex(jobId)].status = "completed",
                                     ![FindIndex(jobId)].completedAt = TRUE]
         ELSE ingestionQueue
  /\ UNCHANGED <<chunks, rel, faiss, reqvars, formData, errors, httpResponse>>

\* route.ts GET: jobId = 0 stands for a request without the parameter
GET(jobId) ==
  /\ httpResponse' =
       IF jobId # 0
         THEN IF FindIndex(jobId) = 0
                THEN [status |-> 404, success |-> FALSE,
                      error |-> "Job not found", data |-> << >>]
                ELSE [status |-> 200, success |-> TRUE, error |-> "",
                      data |-> <<ingestionQueue[FindIndex(jobId)]>>]
         ELSE [status |-> 200, success |-> TRUE, error |-> "",
               data |-> ingestionQueue]
  /\ UNCHANGED <<chunks, rel, faiss, reqvars, formData, errors,
                 ingestionQueue, timers>>

InitAdmin ==
  /\ formData = InitialFormData
  /\ errors = {}
  /\ ingestionQueue = << >>
  /\ timers = {}
  /\ httpResponse = NoHttpResponse

(***************************************************************************)
(* Specifications.                                                         *)
(***************************************************************************)
GovernanceQueries == {<<"How", "to", "register", "a", "company?">>}

InitRequest ==
  /\ entry = "none"
  /\ pc = "idle"
  /\ query = << >>
  /\ intent = NoIntent
  /\ evidence = << >>
  /\ supplementary = << >>
  /\ policy = "none"
  /\ policyInput = << >>
  /\ calls = NoCalls
  /\ embedOutcome = "none"
  /\ llmOutcome = "none"
  /\ synthInput = << >>
  /\ enforce = TRUE
  /\ response = NoResponse

Init ==
  /\ chunks = [c \in ChunkIds |-> NoChunk]
  /\ rel = {}
  /\ faiss = {}
  /\ InitRequest
  /\ InitAdmin

Ingest ==
  \/ \E p \in DocIds : CreateParentChunk(p)
  \/ \E p \in DocIds : UpdateChunkText(p)
  \/ \E p \in DocIds : HierarchicalChunk(p)
  \/ \E p \in DocIds : EmbedChildChunks(p)
  \/ BuildVectorDatabase
  \/ \E c \in ChunkIds : ApproveChunk(c)
  \/ \E c \in ChunkIds : RetireChunk(c)

Serve ==
  \/ \E q \in Queries : Query(q)
  \/ AnalyzeQuery
  \/ \E ok \in BOOLEAN : GatherEvidence(ok)
  \/ GenerateAnswer
  \/ \E ok \in BOOLEAN : LLMReturns(ok)
  \/ \E ok \in BOOLEAN : SupplementarySearch(ok)
  \/ Respond
  \/ \E q \in GovernanceQueries, enf \in BOOLEAN : RetrieveWithGovernance(q, enf)
  \/ \E ok \in BOOLEAN : SearchChunks(ok)
  \/ ApplyRefusalPolicy
  \/ ReturnResultsOrRefusal
  \/ Deliver

Next == Ingest \/ Serve

Spec == Init /\ [][Next]_vars

(***************************************************************************)
(* The query analysis on its own: every query of up to MaxQueryLen tokens  *)
(* over a vocabulary that holds the keywords, a section number and a term. *)
(***************************************************************************)
QueryVocabulary ==
  {"What", "is", "does", "define", "defined", "section", "17", "memorandum", "a"}

QuerySpace == UNION {[1..n -> QueryVocabulary] : n \in 0..MaxQueryLen}

InitClassify ==
  /\ chunks = [c \in ChunkIds |-> NoChunk]
  /\ rel = {}
  /\ faiss = {}
  /\ entry = "query"
  /\ pc = "received"
  /\ query \in QuerySpace
  /\ intent = NoIntent
  /\ evidence = << >>
  /\ supplementary = << >>
  /\ policy = "none"
  /\ policyInput = << >>
  /\ calls = NoCalls
  /\ embedOutcome = "none"
  /\ llmOutcome = "none"
  /\ synthInput = << >>
  /\ enforce = TRUE
  /\ response = NoResponse
  /\ InitAdmin

NextClassify == AnalyzeQuery

SpecClassify == InitClassify /\ [][NextClassify]_vars

(***************************************************************************)
(* The refusal policy engine on its own: every evidence set of up to two   *)
(* chunks over a store of three chunks with any priority, any              *)
(* refuse_if_parent_missing flag and any implements/clarifies edges.       *)
(***************************************************************************)
PolicyChunk(role, parent, pr, flag) ==
  [role |-> role, parent_chunk_id |-> parent,
   document_type |-> "other", section |-> "017",
   text |-> <<"company">>, status |-> "ACTIVE",
   priority |-> pr,
   can_answer_standalone |-> pr = 1,
   must_reference_parent_law |-> pr >= 2,
   refuse_if_parent_missing |-> flag,
   enabled |-> role = "child", embedded_at |-> role = "child"]

PolicyStores ==
  {[c \in ChunkIds |->
      CASE c = 10 -> PolicyChunk("parent", 0, p1, f1)
        [] c = 11 -> PolicyChunk("child", 10, p1, f1)
        [] c = 20 -> PolicyChunk("parent", 0, p2, f2)
        [] OTHER -> NoChunk]
     : p1 \in 1..4, f1 \in BOOLEAN, p2 \in 1..4, f2 \in BOOLEAN}

PolicyEdges ==
  {<<20, "clarifies", 10>>, <<10, "implements", 20>>, <<11, "implements", 20>>}

InitPolicy ==
  /\ chunks \in PolicyStores
  /\ rel \in SUBSET PolicyEdges
  /\ faiss = {11}
  /\ entry = "governance"
  /\ pc = "evidence_gathered"
  /\ query \in GovernanceQueries
  /\ intent = NoIntent
  /\ evidence \in UNION {Arrangements({10, 11, 20}, n) : n \in 0..2}
  /\ supplementary = << >>
  /\ policy = "none"
  /\ policyInput = << >>
  /\ calls = [NoCalls EXCEPT !.embed = 1, !.search = 1]
  /\ embedOutcome = "ok"
  /\ llmOutcome = "none"
  /\ synthInput = << >>
  /\ enforce = TRUE
  /\ response = NoResponse
  /\ InitAdmin

NextPolicy == ApplyRefusalPolicy

SpecPolicy == InitPolicy /\ [][NextPolicy]_vars

\* The service runs a request it has accepted to its end: each step of
\* query() and retrieve_with_governance is taken, and the two external calls
\* return or time out (timeout=10 for the embedding, timeout=30 for the LLM).
SpecLive == Init /\ [][Next]_vars /\ WF_vars(Serve)

\* the admin's form on its own
InitForm == Init

NextForm ==
  \/ \E field \in FormFields : \E value \in FieldValues(field) :
        handleChange(field, value)
  \/ handleSubmit

SpecForm == InitForm /\ [][NextForm]_vars

\* the ingest route on its own
InitRoute == Init

NextRoute ==
  \/ \E req \in RequestSpace : POST(req)
  \/ \E jobId \in JobIds : TimerFires(jobId)
  \/ \E jobId \in 0..(MaxJobs + 1) : GET(jobId)

SpecRoute == InitRoute /\ [][NextRoute]_vars

\* Node runs the callback of every timer that was set
SpecRouteLive ==
  InitRoute /\ [][NextRoute]_vars /\ \A jobId \in JobIds : WF_vars(TimerFires(jobId))

(***************************************************************************)
(* Properties.                                                             *)
(***************************************************************************)
Delivered == pc \in {"done", "refused"}

ReturnedIds == {response.retrieved_chunks[i].chunk_id :
                  i \in 1..Len(response.retrieved_chunks)}

\* C1: answer synthesis (the LLM generate call) begins only after the refusal
\* policy check of the query has completed with outcome proceed: no run is
\* in synthesizing without having passed through policy_checked.
C1_SynthesisAfterPolicyCheck ==
  pc = "synthesizing" => (calls.policy = 1 /\ policy = "proceed")

\* C2: whenever a least authoritative chunk of the evidence set has
\* priority >= 2 and refuse_if_parent_missing = true, and the set holds no
\* chunk of strictly higher authority that is its parent law over an
\* implements/clarifies edge, the engine outputs refuse, never proceed.
C2_RefuseWhenParentLawMissing ==
  pc = "policy_checked" =>
    ((\E c \in Range(policyInput) :
         /\ \A d \in Range(policyInput) : chunks[d].priority <= chunks[c].priority
         /\ chunks[c].priority >= 2
         /\ chunks[c].refuse_if_parent_missing
         /\ \A d \in Range(policyInput) :
               chunks[d].priority < chunks[c].priority => ~ParentLawOf(c, d))
      => policy = "refuse")

\* the case of C2: a priority-2 chunk refused although a higher-authority
\* chunk, not its parent law, is in the evidence set
C2_Witness ==
  /\ pc = "policy_checked"
  /\ policy = "refuse"
  /\ \E c, d \in Range(policyInput) :
        /\ chunks[c].priority = 2
        /\ chunks[c].refuse_if_parent_missing
        /\ chunks[d].priority = 1
        /\ ~ParentLawOf(c, d)

\* C3: a priority-4 chunk is never answered standalone: when the least
\* authoritative chunk of the (ACTIVE) evidence has priority 4 and the
\* evidence holds no related higher-authority chunk, the response delivered
\* is a refusal with reason insufficient_authoritative_source, not an answer.
C3_CommentaryNeverStandalone ==
  (/\ Delivered
   /\ entry = "query"
   /\ \A c \in Range(evidence) : chunks[c].status = "ACTIVE"
   /\ \E c \in LowestPriority(evidence) :
         chunks[c].priority = 4 /\ ~HasParentLaw(c, evidence))
  => (/\ response.refused
      /\ response.reason = RefusalReason
      /\ response.kind # "answer")

C6_PolicyEvaluatedOnce ==
  Delivered => (calls.policy = 1 /\ policyInput = evidence)

\* C7: every chunk returned in retrieved_chunks has lifecycle status ACTIVE.
C7_OnlyActiveRetrieved ==
  \A c \in ReturnedIds : chunks[c].status = "ACTIVE"

C9_DefinitionPrecedence ==
  (/\ pc = "classified"
   /\ is_definition_query(query)
   /\ ExtractTerm(query) # << >>
   /\ section_match(query) # "")
  => (intent.kind = "definition" /\ intent.param = ExtractTerm(query))

QueryIntent(q) ==
  CASE q = <<"What", "is", "the", "definition", "of", "memorandum?">>
         -> [kind |-> "definition", param |-> <<"memorandum">>]
    [] q = <<"Explain", "section", "17">>
         -> [kind |-> "section", param |-> <<"017">>]
    [] OTHER -> [kind |-> "general", param |-> q]

TaggedIds(source_type) ==
  {response.retrieved_chunks[i].chunk_id :
     i \in {k \in 1..Len(response.retrieved_chunks) :
              response.retrieved_chunks[k].source_type = source_type}}

\* the ACTIVE chunks of a section, parents first, then by chunk_id
ActiveOfSection(key) ==
  ParentFirst({c \in ChunkIds :
     Exists(c) /\ chunks[c].section = key /\ chunks[c].status = "ACTIVE"})

\* C12: for a section query the direct lookup returns exactly the first
\* top_k of the ACTIVE chunks of the zero-padded section key, parents before
\* children and by chunk_id within a role; every chunk returned has that
\* section and is tagged direct_lookup in the response.
C12_SectionLookupExact ==
  (entry = "query" /\ intent.kind = "section" /\ pc \notin {"received", "classified"})
    => LET key == intent.param[1]
           expected == Take(ActiveOfSection(key), TopK)
       IN  /\ DirectLookupSection(key, TopK) = expected
           /\ Range(evidence) = Range(expected)
           /\ \A c \in Range(evidence) : chunks[c].section = key
           /\ response.kind = "answer" => TaggedIds("direct_lookup") = Range(expected)

\* C12 on stores whose chunks of the section are all ACTIVE: what the lookup
\* does apart from the lifecycle filter
C12_SectionLookupAmongActive ==
  (/\ entry = "query" /\ intent.kind = "section"
   /\ pc \notin {"received", "classified"}
   /\ \A c \in ChunkIds :
         (Exists(c) /\ chunks[c].section = intent.param[1]) => chunks[c].status = "ACTIVE")
    => LET key == intent.param[1]
           expected == Take(ActiveOfSection(key), TopK)
       IN  /\ DirectLookupSection(key, TopK) = expected
           /\ Range(evidence) = Range(expected)
           /\ \A c \in Range(evidence) : chunks[c].section = key
           /\ response.kind = "answer" => TaggedIds("direct_lookup") = Range(expected)

\* what C13 says of a definition lookup result for a term
DefinitionLookupSound(found, term) ==
  /\ \A c \in Range(found) :
        /\ Exists(c)
        /\ chunks[c].status = "ACTIVE"
        /\ chunks[c].section = "002"
        /\ TextContains(chunks[c].text, term)
  /\ \A i, j \in 1..Len(found) : i < j => RoleRank(found[i]) <= RoleRank(found[j])
  /\ Len(found) <= TopK

\* C13: for a definition query every chunk the direct lookup returns is an
\* ACTIVE chunk of the definitions section whose text contains the term
\* (case-insensitive); the result is ordered parent before child and holds at
\* most top_k chunks; no chunk of another section is returned on this path.
C13_DefinitionLookupSound ==
  (entry = "query" /\ intent.kind = "definition" /\ pc \notin {"received", "classified"})
    => /\ DefinitionLookupSound(DirectLookupDefinition(intent.param), intent.param)
       /\ Range(evidence) = Range(DirectLookupDefinition(intent.param))
       /\ \A c \in ReturnedIds : chunks[c].section = "002"

\* C13 on stores whose chunks of Section 002 are all ACTIVE
C13_DefinitionLookupAmongActive ==
  (/\ entry = "query" /\ intent.kind = "definition"
   /\ pc \notin {"received", "classified"}
   /\ \A c \in ChunkIds :
         (Exists(c) /\ chunks[c].section = "002") => chunks[c].status = "ACTIVE")
    => /\ DefinitionLookupSound(DirectLookupDefinition(intent.param), intent.param)
       /\ Range(evidence) = Range(DirectLookupDefinition(intent.param))
       /\ \A c \in ReturnedIds : chunks[c].section = "002"

C18_QueryPathReadOnly ==
  [][(entry # "none" \/ entry' # "none")
       => UNCHANGED <<chunks, rel, faiss>>]_vars

\* a request over a store that holds indexed chunks has its response ready
C18_Witness ==
  /\ Delivered
  /\ faiss # {}
  /\ rel # {}
  /\ Len(response.retrieved_chunks) > 0

\* what a section or definition query hands to synthesis and tags as
\* direct_lookup is the direct lookup of its intent, whatever the
\* supplementary search did or will do
DirectLookupDecidesAlone ==
  /\ synthInput = evidence
  /\ Range(synthInput) = Range(DirectLookup(intent))
  /\ response.kind = "answer"
       => TaggedIds("direct_lookup") = Range(DirectLookup(intent))

\* C19: for a section or definition query the direct lookup and the
\* supplementary semantic search are independent, so that they may run in
\* any order: the synthesis input and the chunks tagged direct_lookup are
\* those of the direct lookup alone, and synthesis has started only after
\* the refusal policy check of the query has completed.
C19_LookupAndSearchIndependent ==
  (/\ entry = "query"
   /\ RetrievalPlan(intent.kind).direct
   /\ pc \in {"synthesizing", "answered", "merged", "done"})
    => /\ DirectLookupDecidesAlone
       /\ calls.policy = 1
       /\ policy # "none"

\* the same without the refusal policy check: only the independence of the
\* two retrievals
C19_IndependentRetrievals ==
  (/\ entry = "query"
   /\ RetrievalPlan(intent.kind).direct
   /\ pc \in {"synthesizing", "answered", "merged", "done"})
    => DirectLookupDecidesAlone

\* C20: in every state of the chunk store, a chunk has the role parent
\* exactly when its parent_chunk_id is null and the role child exactly when
\* it is not null (CONSTRAINT parent_child_consistency); creating, editing,
\* splitting, embedding, approving and retiring all keep it.
C20_ParentChildConsistency ==
  \A c \in ChunkIds :
     Exists(c) =>
       /\ chunks[c].role \in {"parent", "child"}
       /\ chunks[c].role = "parent" <=> chunks[c].parent_chunk_id = 0
       /\ chunks[c].role = "child" <=> chunks[c].parent_chunk_id # 0

\* a parent whose text was edited and split, with a child that went through
\* approval and retirement
C20_Witness ==
  \E c, d \in ChunkIds :
     /\ Exists(c) /\ Exists(d)
     /\ chunks[c].role = "parent" /\ chunks[c].text # << >>
     /\ chunks[d].role = "child" /\ chunks[d].parent_chunk_id = c
     /\ chunks[d].embedded_at
     /\ chunks[d].status = "RETIRED"

\* C21: only child chunks are embedded: every chunk whose embedding record
\* has enabled = true is a child, the vector index holds child chunks only,
\* and what the semantic search returns (the evidence of a general query or
\* of retrieve_with_governance, the supplementary chunks of a section query)
\* are child chunks.
C21_OnlyChildrenEmbedded ==
  /\ \A c \in ChunkIds :
        Exists(c) /\ chunks[c].enabled => chunks[c].role = "child"
  /\ \A c \in faiss : chunks[c].role = "child"
  /\ ~RetrievalPlan(intent.kind).direct
       => \A i \in 1..Len(evidence) : chunks[evidence[i]].role = "child"
  /\ \A i \in 1..Len(supplementary) : chunks[supplementary[i]].role = "child"

\* a semantic search returned an embedded child whose parent, split and
\* approved, has no enabled embedding
C21_Witness ==
  /\ entry # "none" /\ Delivered
  /\ ~RetrievalPlan(intent.kind).direct
  /\ \E i \in 1..Len(evidence) :
        LET c == evidence[i]
            par == chunks[c].parent_chunk_id
        IN  /\ chunks[c].enabled /\ chunks[c].embedded_at
            /\ par # 0
            /\ chunks[par].role = "parent"
            /\ chunks[par].status = "ACTIVE"
            /\ ~chunks[par].enabled

\* priority 1 answers standalone, priorities 2 to 4 must reference the
\* parent law
RulesConsistent(priority, pol) ==
  /\ priority \in 1..4
  /\ priority = 1 => pol.can_answer_standalone
  /\ priority \in {2, 3, 4} => pol.must_reference_parent_law

\* C22: the retrieval rule and the refusal policy of a chunk agree in every
\* state: priority 1 has can_answer_standalone, priorities 2, 3 and 4 have
\* must_reference_parent_law; and the rows ingestion gives to any document
\* type agree in the same way.
C22_RulesAndPolicyConsistent ==
  /\ \A c \in ChunkIds :
        Exists(c) => RulesConsistent(chunks[c].priority, chunks[c])
  /\ \A dt \in DocumentTypes :
        RulesConsistent(Priority(dt), RefusalPolicy(Priority(dt)))

\* the store holds a split document of priority 1 and one of a lower priority
C22_Witness ==
  \E c, d \in ChunkIds :
     /\ Exists(c) /\ Exists(d)
     /\ chunks[c].role = "child" /\ chunks[c].priority = 1
     /\ chunks[c].can_answer_standalone
     /\ chunks[d].role = "child" /\ chunks[d].priority > 1
     /\ chunks[d].must_reference_parent_law

\* one step of the store seen from the lifecycle of its chunks: records are
\* kept, a new record starts in DRAFT, and the status moves DRAFT to ACTIVE
\* to RETIRED only
LifecycleStep ==
  \A c \in ChunkIds :
     IF chunks[c] = NoChunk
       THEN chunks'[c] # NoChunk => chunks'[c].status = "DRAFT"
       ELSE /\ chunks'[c] # NoChunk
            /\ \/ chunks'[c].status = chunks[c].status
               \/ chunks[c].status = "DRAFT" /\ chunks'[c].status = "ACTIVE"
               \/ chunks[c].status = "ACTIVE" /\ chunks'[c].status = "RETIRED"

\* C23: the lifecycle status of a chunk only moves forward, from DRAFT at
\* creation to ACTIVE to RETIRED, no record is ever deleted, and a RETIRED
\* chunk is never returned by a query.
C23_LifecycleForwardRetiredUnseen ==
  /\ [][LifecycleStep]_vars
  /\ [](\A c \in ReturnedIds : chunks[c].status # "RETIRED")

\* the same without the retrieval of retired chunks: the store alone
C23_LifecycleForwardOnly == [][LifecycleStep]_vars

\* the binding and the non-binding list are disjoint and hold every type
ListsPartitionTypes ==
  /\ BINDING_DOCUMENT_TYPES \cap NON_BINDING_DOCUMENT_TYPES = {}
  /\ BINDING_DOCUMENT_TYPES \cup NON_BINDING_DOCUMENT_TYPES = DocumentTypes

\* the step of the form that selects a document type sets isBinding to the
\* membership of the type in the given set
AutoSetBinding(binding) ==
  formData'.documentType # formData.documentType
    => formData'.isBinding = (formData'.documentType \in binding)

\* C24: binding is a function of the document type alone: the flag the form
\* sets with the document type and the two lists make binding exactly act,
\* rule, regulation, order, notification, form, schedule, register and
\* return, not binding sop, guideline, practice_note, commentary, textbook,
\* qa_book and qa, and the lists are disjoint and cover every type.
C24_BindingByDocumentType ==
  [][/\ BINDING_DOCUMENT_TYPES =
          {"act", "rule", "regulation", "order", "notification", "form",
           "schedule", "register", "return"}
     /\ {"sop", "guideline", "practice_note", "commentary", "textbook",
         "qa_book", "qa"} \subseteq NON_BINDING_DOCUMENT_TYPES
     /\ ListsPartitionTypes
     /\ AutoSetBinding({"act", "rule", "regulation", "order", "notification",
                        "form", "schedule", "register", "return"})]_vars

\* the same with the binding list as the code has it, circular included:
\* the form and the lists agree with each other
C24_BindingFollowsLists ==
  [][/\ {"sop", "guideline", "practice_note", "commentary", "textbook",
         "qa_book", "qa"} \subseteq NON_BINDING_DOCUMENT_TYPES
     /\ ListsPartitionTypes
     /\ AutoSetBinding(BINDING_DOCUMENT_TYPES)]_vars

\* the chunks are in the order of get_chunk_details: priority, then section
OrderedByPriority(ids) ==
  \A i, j \in 1..Len(ids) :
     i < j => \/ chunks[ids[i]].priority < chunks[ids[j]].priority
              \/ /\ chunks[ids[i]].priority = chunks[ids[j]].priority
                 /\ SectionLeq(chunks[ids[i]].section, chunks[ids[j]].section)

\* C25: the context handed to the LLM lists the evidence by priority, then
\* section, stays within the size limit, and holds the block of the
\* top-ranked chunk complete, never cut in the middle.
C25_TopChunkComplete ==
  (entry = "query" /\ pc = "synthesizing" /\ synthInput # << >>)
    => LET context == BuildContext(synthInput)
           top == ContextPart(synthInput[1])
       IN  /\ OrderedByPriority(synthInput)
           /\ Len(context) <= ContextLimit
           /\ Len(context) >= Len(top)
           /\ SubSeq(context, 1, Len(top)) = top

\* the same without the top-ranked block: the context is the leading part
\* of the ordered blocks, within the limit
C25_ContextIsBoundedPrefix ==
  (entry = "query" /\ pc = "synthesizing" /\ synthInput # << >>)
    => LET context == BuildContext(synthInput)
           joined == JoinParts(synthInput)
       IN  /\ OrderedByPriority(synthInput)
           /\ Len(context) <= ContextLimit
           /\ Len(context) <= Len(joined)
           /\ context = SubSeq(joined, 1, Len(context))


\* the number of returned chunks tagged with a source type
CountTagged(source_type) ==
  Cardinality({i \in 1..Len(response.retrieved_chunks) :
                 response.retrieved_chunks[i].source_type = source_type})

ParentOfChildExists(store, c) ==
  LET par == store[c].parent_chunk_id
  IN  /\ par \in ChunkIds
      /\ store[par] # NoChunk
      /\ store[par].role = "parent"

NoEmbeddingYet ==
  {c \in ChunkIds : /\ Exists(c)
                    /\ chunks[c].role = "child"
                    /\ (~chunks[c].embedded_at \/ ~chunks[c].enabled)}

\* a run embeds the chunks of the set S and no other: they get embedded_at
\* and enter the index, every other chunk and the rest of the index stay
RunEmbedsExactly(S) ==
  \A run \in {BuildResult}, new \in {S} :
    /\ run.embedded = new
    /\ run.faiss = faiss \cup new
    /\ \A c \in ChunkIds :
          IF c \in new
            THEN run.chunks[c].embedded_at /\ run.chunks[c].enabled
            ELSE run.chunks[c] = chunks[c]

\* the index only grows, by child chunks that had no embedding before the
\* step and have embedded_at set after it; an embedded chunk stays embedded
IndexGrowsByNewChunks ==
  /\ faiss \subseteq faiss'
  /\ (faiss' \ faiss) \subseteq NoEmbeddingYet
  /\ \A c \in faiss' \ faiss : chunks'[c].embedded_at /\ chunks'[c].enabled
  /\ \A c \in ChunkIds :
        (Exists(c) /\ chunks[c].embedded_at)
          => chunks'[c].embedded_at /\ chunks'[c].enabled

BindingWithoutSection(req, types) ==
  /\ req.metadata /\ MissingFields(req) = {}
  /\ req.documentType \in types
  /\ req.isBinding /\ req.section = ""

\* the step is a POST of req that is answered 400 with the error and leaves
\* the queue and the timers as they were
RejectedWith(req, error) ==
  POST(req) => /\ httpResponse' = BadRequest(error)
               /\ ingestionQueue' = ingestionQueue
               /\ timers' = timers

\* a POST of a request that lacks a required field is answered 400 and
\* creates no job
MissingFieldRejected ==
  \A req \in RequestSpace :
    (req.metadata /\ MissingFields(req) # {})
      => (POST(req) => /\ httpResponse'.status = 400
                       /\ ~httpResponse'.success
                       /\ ingestionQueue' = ingestionQueue
                       /\ timers' = timers)

\* C29: for every binding document type a POST with isBinding = true and no
\* section is answered 400 'Section is required for binding documents' and
\* leaves the queue unchanged, and a POST that lacks documentType,
\* dateIssued, complianceArea or documentLanguage is answered 400 and
\* creates no job.
C29_SectionRequiredForBinding ==
  [][/\ \A req \in RequestSpace :
          BindingWithoutSection(req, BINDING_DOCUMENT_TYPES)
            => RejectedWith(req, "Section is required for binding documents")
     /\ MissingFieldRejected]_vars

\* the same for the document types the route lists itself
C29_SectionRequiredForListedTypes ==
  [][/\ \A req \in RequestSpace :
          BindingWithoutSection(req, bindingTypes)
            => RejectedWith(req, "Section is required for binding documents")
     /\ MissingFieldRejected]_vars


\* the job of the queue with the id
JobOf(jobId) == ingestionQueue[FindIndex(jobId)]

Accepted(jobId) == FindIndex(jobId) # 0

\* a step keeps every job of the queue in its place with its id and data,
\* moves a status only from pending to completed, and appends pending jobs
QueueStep ==
  /\ Len(ingestionQueue') >= Len(ingestionQueue)
  /\ \A i \in 1..Len(ingestionQueue) :
        /\ ingestionQueue'[i].id = ingestionQueue[i].id
        /\ ingestionQueue'[i].data = ingestionQueue[i].data
        /\ ingestionQueue[i].status = "completed"
             => ingestionQueue'[i] = ingestionQueue[i]
        /\ ingestionQueue'[i].status # ingestionQueue[i].status
             => /\ ingestionQueue[i].status = "pending"
                /\ ingestionQueue'[i].status = "completed"
                /\ ~ingestionQueue[i].completedAt
                /\ ingestionQueue'[i].completedAt
  /\ \A i \in (Len(ingestionQueue) + 1)..Len(ingestionQueue') :
        /\ ingestionQueue'[i].status = "pending"
        /\ ~ingestionQueue'[i].completedAt

\* GET with a jobId answers 404 exactly for an id that is not in the queue,
\* and otherwise returns the job as it is in the queue
GetReturnsJob ==
  \A jobId \in 1..(MaxJobs + 1) :
    GET(jobId) =>
      /\ httpResponse'.status = 404 <=> ~Accepted(jobId)
      /\ Accepted(jobId) => /\ httpResponse'.status = 200
                            /\ httpResponse'.data = <<JobOf(jobId)>>

====
